---- MODULE Spec2Model ----
(***************************************************************************)
(* Model of scripts/enhanced-monitoring.js: one invocation of main() in    *)
(* one of its four run modes.  External tools (tmux, git, the MCP python   *)
(* client, quick-email.js, the file system) are the environment; every     *)
(* call into them draws its outcome nondeterministically.                  *)
(*                                                                         *)
(* A command's standard output is a sequence of lines.  A line is a string *)
(* token: either the text of one stall signature (the line contains that   *)
(* signature and no other), a text containing no signature, or a blank     *)
(* line.  String.includes(pattern) is therefore "some line is the          *)
(* pattern".                                                               *)
(***************************************************************************)
EXTENDS Integers, Sequences, FiniteSets, TLC

\* ------------------------------------------------------------------ bounds
MaxProjects == 2      \* entries of configs/project-paths.json
MaxSessions == 2      \* sessions tmux can list
MaxUnits == 2         \* projects and sessions of one run, together
MaxPatterns == 2      \* how many of the signatures can show up on a pane
MaxChanges == 1       \* lines `git status --porcelain` can print

\* --------------------------------------------------------------- constants
stuckPatterns ==
  << "Do you want to proceed?", "Press any key to continue",
     "Waiting for user input", "Type \"y\" to confirm", "Continue? (y/n)",
     "Approval required", "Enter to continue", "Would you like to",
     "Please confirm", "Proceed with" >>

fixes == << "y", "yes", "", "q", "exit" >>

Modes == {"full", "quick", "git", "stuck"}

ProjectPool == << "alpha", "beta", "gamma", "delta" >>
ProjectNames == {ProjectPool[i] : i \in 1..MaxProjects}
SessionPool == << "dev", "api", "web", "docs" >>
SessionNames == {SessionPool[i] : i \in 1..MaxSessions}

BlankLine == " "
OtherLine == "$ npm test"
CommitLine == "a1b2c3|dev|2 hours ago|fix bug"
BranchLine == "main"
StatusLine == " M file"

\* ------------------------------------------------------------- exec helper
Range(s) == {s[i] : i \in 1..Len(s)}

SeqsUpTo(S, n) == UNION {[1..k -> S] : k \in 0..n}

RECURSIVE TrimStart(_)
TrimStart(s) ==
  IF s = <<>> THEN s
  ELSE IF Head(s) = BlankLine THEN TrimStart(Tail(s)) ELSE s

RECURSIVE TrimEnd(_)
TrimEnd(s) ==
  IF s = <<>> THEN s
  ELSE IF s[Len(s)] = BlankLine THEN TrimEnd(SubSeq(s, 1, Len(s) - 1)) ELSE s

\* String.prototype.trim on a multi-line output
trim(s) == TrimEnd(TrimStart(s))

\* what a child process did: it failed (non-zero status, timeout, missing
\* binary) or it printed `out`
ProcOutcomes(Outs) == [failed : BOOLEAN, out : Outs]

\* exec(): null on any failure, else the trimmed output
exec(r) ==
  IF r.failed THEN [isNull |-> TRUE, out |-> <<>>]
  ELSE [isNull |-> FALSE, out |-> trim(r.out)]

\* JavaScript truthiness of a value returned by exec (null and "" are falsy)
Truthy(v) == ~v.isNull /\ v.out # <<>>

\* content.includes(pattern)
includes(v, pattern) == \E i \in 1..Len(v.out) : v.out[i] = pattern

\* ------------------------------------------------------------------- state
VARIABLES
  mode,              \* process.argv[2] || 'full'
  registryOK,        \* configs/project-paths.json exists and parses
  projectPaths,      \* the entries of configs/project-paths.json, in order
  pathExists,        \* project name -> fs.existsSync(projectPath)
  pc,                \* position of the run
  mcpResult,         \* <<>> or <<result of runMCPMonitoring>>
  gitIdx,            \* position of the loop of checkGitProgress
  progressData,      \* checkGitProgress: project name -> entry
  gitFailures,       \* project name -> the git inspections that failed
  sessions,          \* detectStuckPrompts: session names listed by tmux
  detIdx,            \* position of the loop of detectStuckPrompts
  stuckSessions,     \* detectStuckPrompts: list of {session, pattern, content}
  firstCapture,      \* session -> what detectStuckPrompts captured
  lastCapture,       \* session -> the most recent capture of its pane
  fixIdx,            \* autoFixStuckPrompts: position in stuckSessions
  fixK,              \* autoFixStuckPrompts: position in fixes
  sent,              \* session -> inputs sent to it with tmux send-keys
  fixedLog,          \* sessions logged as "Fixed session ..."
  rechecks,          \* session -> number of re-captures after an input
  vanished,          \* sessions that were gone when send-keys ran
  alertCalls,        \* calls of sendTokenWasteAlert: argument, script found
  alerts,            \* messages handed to quick-email.js
  report,            \* <<>> or <<the report object returned>>
  reportFiles,       \* contents of the report files written
  exitCode           \* <<>> or <<status given to process.exit>>

\* state of a call into src/lib/commands.ts (CommandExecutor and friends)
VARIABLES
  libCall,           \* the operation called and its arguments
  lpc,               \* position inside the operation
  started,           \* command strings handed to exec / execSync, in order
  results,           \* index -> CommandResult collected so far
  response           \* <<>> or <<what the operation returned>>

\* files on disk that the library and the script write
VARIABLES
  configFile,        \* configs/project-paths.json as ConfigManager sees it
  configWrites       \* contents handed to fs.writeFileSync by ConfigManager

\* the reports directory and the full runs that write into it
VARIABLES
  now,               \* Date.now(), in milliseconds
  reportsDir,        \* the reports directory: exists, file name -> content
  runs               \* run -> position, report assembled, file written

reportVars == << now, reportsDir, runs >>

diskVars == << configFile, configWrites, reportVars >>

MaxRuns == 2           \* full runs of the script that can overlap
MaxClock == 2          \* milliseconds the clock can advance

Runs == 1..MaxRuns

\* no full run has been started and nothing was ever reported
ReportsIdle ==
  /\ now = 0
  /\ reportsDir = [exists |-> FALSE, files |-> <<>>]
  /\ runs = [r \in Runs |-> [pc |-> "idle", report |-> <<>>, file |-> <<>>]]

libVars == << libCall, lpc, started, results, response, diskVars >>

\* no call into the library is going on
LibIdle ==
  /\ libCall = [op |-> "none"]
  /\ lpc = "idle"
  /\ started = <<>>
  /\ results = <<>>
  /\ response = <<>>
  /\ configFile = [exists |-> FALSE]
  /\ configWrites = <<>>
  /\ ReportsIdle

vars ==
  << libVars, mode, registryOK, projectPaths, pathExists, pc, mcpResult, gitIdx, progressData,
     gitFailures, sessions, detIdx, stuckSessions, firstCapture, lastCapture,
     fixIdx, fixK, sent, fixedLog, rechecks, vanished, alertCalls, alerts, report, reportFiles, exitCode >>

envVars == << libVars, mode, registryOK, projectPaths, pathExists >>
mcpVars == << mcpResult >>
gitVars == << gitIdx, progressData, gitFailures >>
detVars == << sessions, detIdx, stuckSessions, firstCapture >>
fixVars == << fixIdx, fixK, sent, fixedLog, rechecks, vanished >>
outVars == << alertCalls, alerts, report, reportFiles >>

\* a registry of n projects
Registry(n) ==
  [i \in 1..n |-> [name |-> ProjectPool[i], path |-> 100 + i]]

Init ==
  /\ LibIdle
  /\ mode \in Modes
  /\ registryOK \in BOOLEAN
  /\ projectPaths \in
       {Registry(n) : n \in {m \in 0..MaxProjects :
                                m <= MaxUnits /\ (~registryOK => m = 0)}}
  /\ pathExists \in [{projectPaths[i].name : i \in 1..Len(projectPaths)}
                       -> BOOLEAN]
  /\ pc = "main"
  /\ mcpResult = <<>>
  /\ gitIdx = 1
  /\ progressData = <<>>
  /\ gitFailures = <<>>
  /\ sessions = <<>>
  /\ detIdx = 1
  /\ stuckSessions = <<>>
  /\ firstCapture = <<>>
  /\ lastCapture = <<>>
  /\ fixIdx = 1
  /\ fixK = 1
  /\ sent = [s \in SessionNames |-> <<>>]
  /\ fixedLog = {}
  /\ rechecks = [s \in SessionNames |-> 0]
  /\ vanished = {}
  /\ alertCalls = <<>>
  /\ alerts = <<>>
  /\ report = <<>>
  /\ reportFiles = <<>>
  /\ exitCode = <<>>

\* -------------------------------------------------------------------- main
\* main(): dispatch on the run mode to the first phase of that mode
main ==
  /\ pc = "main"
  /\ pc' = CASE mode = "quick" -> "mcp"
             [] mode = "git" -> "git"
             [] mode = "stuck" -> "detect"
             [] OTHER -> "mcp"
  /\ UNCHANGED << envVars, mcpVars, gitVars, detVars, lastCapture, fixVars,
                  outVars, exitCode >>

\* -------------------------------------------------------- runMCPMonitoring
\* the result object of runMCPMonitoring for one outcome of the environment
mcpOutcome(scriptExists, r) ==
  IF ~scriptExists THEN [success |-> FALSE, error |-> "MCP script not found"]
  ELSE IF Truthy(exec(r)) THEN [success |-> TRUE, data |-> exec(r).out]
  ELSE [success |-> FALSE, error |-> "No data returned"]

McpOutputs == {<<>>, <<OtherLine>>}

\* (variant: 'quick' falls into the default case of the switch)
afterMcpFallThrough(m) == "git"

\* who awaits runMCPMonitoring: case 'quick' of main (line 319), or
\* generateMonitoringReport (line 253), which goes on with checkGitProgress
afterMcp(m) == IF m = "quick" THEN "quick_then" ELSE "git"

\* runMCPMonitoring: resolves to the caller's continuation
runMCPMonitoring ==
  /\ pc = "mcp"
  /\ \E scriptExists \in BOOLEAN, r \in ProcOutcomes(McpOutputs) :
       mcpResult' = << mcpOutcome(scriptExists, r) >>
  /\ pc' = afterMcp(mode)
  /\ UNCHANGED << envVars, gitVars, detVars, lastCapture, fixVars, outVars,
                  exitCode >>

\* main, case 'quick': the .then callback
mainQuickThen ==
  /\ pc = "quick_then"
  /\ exitCode' = << IF mcpResult[1].success THEN 0 ELSE 1 >>
  /\ pc' = "done"
  /\ UNCHANGED << envVars, mcpVars, gitVars, detVars, lastCapture, fixVars,
                  outVars >>

\* -------------------------------------------------------- checkGitProgress
\* latestCommit.split('|') for the outputs git log can print here
split(line) ==
  IF line = CommitLine THEN << "a1b2c3", "dev", "2 hours ago", "fix bug" >>
  ELSE << line >>

CommitOutputs == { << CommitLine >> }
StatusOutputs == { [i \in 1..k |-> StatusLine] : k \in 0..MaxChanges }
BranchOutputs == { <<>>, << BranchLine >> }

\* what the environment does to the inspection of one project
GitOutcomes ==
  [ chdirThrows : BOOLEAN,
    log : ProcOutcomes(CommitOutputs),
    status : ProcOutcomes(StatusOutputs),
    branch : ProcOutcomes(BranchOutputs) ]

\* the entry built at lines 84-90 from the three exec results
gitEntry(projectPath, latestCommit, uncommittedChanges, branchInfo) ==
  [ path |-> projectPath,
    latestCommit |->
      IF Truthy(latestCommit) THEN split(latestCommit.out[1]) ELSE <<>>,
    uncommittedChanges |->
      IF Truthy(uncommittedChanges) THEN Len(uncommittedChanges.out) ELSE 0,
    currentBranch |->
      IF Truthy(branchInfo) THEN branchInfo.out[1] ELSE "unknown",
    lastActivity |->
      IF Truthy(latestCommit) THEN split(latestCommit.out[1])[3]
      ELSE "unknown" ]

\* progressData after the loop body ran for one project under outcome o
gitBody(data, name, projectPath, o) ==
  IF ~pathExists[name] THEN data
  ELSE IF o.chdirThrows THEN (name :> [error |-> "chdir failed"]) @@ data
  ELSE LET latestCommit == exec(o.log)
           entry == gitEntry(projectPath, latestCommit, exec(o.status),
                             exec(o.branch))
       IN  IF Truthy(latestCommit) /\ Len(split(latestCommit.out[1])) < 4
           THEN (name :> [error |-> "message is undefined"]) @@ data
           ELSE (name :> entry) @@ data

\* the inspections of outcome o that exec turned into null
failedInspections(o) ==
  {c \in {"log", "status", "branch"} :
     \/ c = "log" /\ o.log.failed
     \/ c = "status" /\ o.status.failed
     \/ c = "branch" /\ o.branch.failed}

\* the record of the failed inspections, kept for the projects whose three
\* git commands were run
gitRan(failures, name, o) ==
  IF pathExists[name] /\ ~o.chdirThrows
  THEN (name :> failedInspections(o)) @@ failures
  ELSE failures

\* (variant: a throw inside the body ends the loop)
nextProjectAbort(idx, o) ==
  IF o.chdirThrows THEN Len(projectPaths) + 1 ELSE idx + 1

\* where the loop over the projects goes after the body ran under outcome
\* o: the try/catch inside the body keeps every failure in the iteration
nextProject(idx, o) == idx + 1

\* (variant: the failure of require is swallowed and the run goes on with
\* no project)
onRequireThrowSwallowed(m) == IF m = "git" THEN "git_then" ELSE "detect"

\* line 71 is outside every try: the throw of require rejects the promise of
\* checkGitProgress, no caller catches it and the process dies
onRequireThrow(m) == "crashed"

\* require('../configs/project-paths.json') throws: the promise rejects and
\* nothing handles it
checkGitProgressThrows ==
  /\ pc = "git"
  /\ ~registryOK
  /\ pc' = onRequireThrow(mode)
  /\ exitCode' \in { <<0>>, <<1>> }
  /\ UNCHANGED << envVars, mcpVars, gitVars, detVars, lastCapture, fixVars,
                  outVars >>

\* one iteration of the loop over Object.entries(projectPaths)
checkGitProject ==
  /\ pc = "git"
  /\ registryOK
  /\ gitIdx <= Len(projectPaths)
  /\ \E o \in GitOutcomes :
       /\ progressData' = gitBody(progressData, projectPaths[gitIdx].name,
                                  projectPaths[gitIdx].path, o)
       /\ gitFailures' = gitRan(gitFailures, projectPaths[gitIdx].name, o)
       /\ gitIdx' = nextProject(gitIdx, o)
  /\ UNCHANGED << envVars, pc, mcpVars, detVars, lastCapture, fixVars,
                  outVars, exitCode >>

\* return progressData
checkGitProgressReturn ==
  /\ pc = "git"
  /\ registryOK
  /\ gitIdx > Len(projectPaths)
  /\ pc' = IF mode = "git" THEN "git_then" ELSE "detect"
  /\ UNCHANGED << envVars, mcpVars, gitVars, detVars, lastCapture, fixVars,
                  outVars, exitCode >>

\* main, case 'git': the .then callback
mainGitThen ==
  /\ pc = "git_then"
  /\ exitCode' = <<0>>
  /\ pc' = "done"
  /\ UNCHANGED << envVars, mcpVars, gitVars, detVars, lastCapture, fixVars,
                  outVars >>

\* ------------------------------------------------------ detectStuckPrompts
\* the signatures of the index set S, one per line, latest-listed first
RECURSIVE signatureLines(_)
signatureLines(S) ==
  IF S = {} THEN <<>>
  ELSE LET m == CHOOSE i \in S : \A j \in S : j <= i
       IN  << stuckPatterns[m] >> \o signatureLines(S \ {m})

\* what a pane can show: nothing, blank lines only, text without any
\* signature, or one to MaxPatterns signatures
RawScreens ==
  { <<>>, << BlankLine >>, << BlankLine, OtherLine, BlankLine >> }
    \cup { signatureLines(S) : S \in (SUBSET (1..MaxPatterns)) \ {{}} }

\* `tmux list-sessions` prints one line per session, "<name>: ..."; a line
\* is modelled by the name that session.split(':')[0] extracts from it
\* (tmux lists its sessions in a fixed order, each name once)
Listings(n) ==
  { [i \in 1..Len(l) |-> SessionPool[l[i]]] :
      l \in {m \in SeqsUpTo(1..n, n) :
               \A i, j \in 1..Len(m) : i < j => m[i] < m[j]} }

\* how many sessions the run can meet, given the size of its registry
sessionBudget ==
  IF MaxUnits - Len(projectPaths) < MaxSessions
  THEN MaxUnits - Len(projectPaths) ELSE MaxSessions

\* screenContent.split('\n').slice(-5).join('\n')
lastFive(lines) ==
  IF Len(lines) <= 5 THEN lines ELSE SubSeq(lines, Len(lines) - 4, Len(lines))

\* (variant: the loop without its break)
RECURSIVE scanPatternsNoBreak(_, _, _, _)
scanPatternsNoBreak(acc, sessionName, screenContent, k) ==
  IF k > Len(stuckPatterns) THEN acc
  ELSE IF Truthy(screenContent) /\ includes(screenContent, stuckPatterns[k])
  THEN scanPatternsNoBreak(
         Append(acc, [ session |-> sessionName,
                       pattern |-> stuckPatterns[k],
                       content |-> lastFive(screenContent.out) ]),
         sessionName, screenContent, k + 1)
  ELSE scanPatternsNoBreak(acc, sessionName, screenContent, k + 1)

\* (variant: the entry names the first signature found on the pane, top
\* down, instead of the first one of the list)
scanPatternsPaneOrder(acc, sessionName, screenContent, k) ==
  IF ~Truthy(screenContent) THEN acc
  ELSE LET hits == {i \in 1..Len(screenContent.out) :
                      screenContent.out[i] \in Range(stuckPatterns)}
       IN  IF hits = {} THEN acc
           ELSE Append(acc,
                  [ session |-> sessionName,
                    pattern |-> screenContent.out[
                                  CHOOSE i \in hits : \A j \in hits : i <= j],
                    content |-> lastFive(screenContent.out) ])

\* (variant: the position in the list is kept from one session to the next,
\* so the scan starts after as many signatures as entries were pushed)
scanPatternsCarryOver(acc, sessionName, screenContent, k) ==
  LET hits == {i \in (k + Len(acc))..Len(stuckPatterns) :
                 Truthy(screenContent)
                   /\ includes(screenContent, stuckPatterns[i])}
  IN  IF hits = {} THEN acc
      ELSE Append(acc,
             [ session |-> sessionName,
               pattern |->
                 stuckPatterns[CHOOSE i \in hits : \A j \in hits : i <= j],
               content |-> lastFive(screenContent.out) ])

\* the loop over stuckPatterns (lines 142-151) from position k on: pushes
\* an entry for the first pattern the content includes, then breaks
RECURSIVE scanPatterns(_, _, _, _)
scanPatterns(acc, sessionName, screenContent, k) ==
  IF k > Len(stuckPatterns) THEN acc
  ELSE IF Truthy(screenContent) /\ includes(screenContent, stuckPatterns[k])
  THEN Append(acc, [ session |-> sessionName,
                     pattern |-> stuckPatterns[k],
                     content |-> lastFive(screenContent.out) ])
  ELSE scanPatterns(acc, sessionName, screenContent, k + 1)

\* (variant: generateMonitoringReport does not wait for the recovery and the
\* alert before it assembles the report)
afterDetectNoRecovery(stuck) ==
  IF mode # "stuck" THEN "report"
  ELSE IF Len(stuck) > 0 THEN "fix_send" ELSE "stuck_exit"

\* where the caller of detectStuckPrompts goes with its result: both
\* generateMonitoringReport (line 258) and main's case 'stuck' (line 334)
\* call autoFixStuckPrompts only for a non-empty list
afterDetect(stuck) ==
  IF Len(stuck) > 0 THEN "fix_send"
  ELSE IF mode = "stuck" THEN "stuck_exit" ELSE "report"

\* exec('tmux list-sessions 2>/dev/null'); no sessions: return []
detectList ==
  /\ pc = "detect"
  /\ \E r \in ProcOutcomes(Listings(sessionBudget)) :
       LET tmuxSessions == exec(r) IN
       IF Truthy(tmuxSessions)
       THEN /\ sessions' = tmuxSessions.out
            /\ pc' = "detect_loop"
       ELSE /\ sessions' = <<>>
            /\ pc' = afterDetect(<<>>)
  /\ detIdx' = 1
  /\ stuckSessions' = <<>>
  /\ UNCHANGED << envVars, mcpVars, gitVars, firstCapture, lastCapture,
                  fixVars, outVars, exitCode >>

\* one iteration of the loop over the sessions: capture, then scan
detectSession ==
  /\ pc = "detect_loop"
  /\ detIdx <= Len(sessions)
  /\ \E r \in ProcOutcomes(RawScreens) :
       LET sessionName == sessions[detIdx]
           screenContent == exec(r)
       IN  /\ stuckSessions' =
                scanPatterns(stuckSessions, sessionName, screenContent, 1)
           /\ firstCapture' = (sessionName :> screenContent) @@ firstCapture
           /\ lastCapture' = (sessionName :> screenContent) @@ lastCapture
  /\ detIdx' = detIdx + 1
  /\ UNCHANGED << envVars, pc, mcpVars, gitVars, sessions, fixVars, outVars,
                  exitCode >>

\* return stuckSessions (or [])
detectReturn ==
  /\ pc = "detect_loop"
  /\ detIdx > Len(sessions)
  /\ pc' = afterDetect(stuckSessions)
  /\ UNCHANGED << envVars, mcpVars, gitVars, detVars, lastCapture, fixVars,
                  outVars, exitCode >>

\* ----------------------------------------------------- autoFixStuckPrompts
\* line 197: the re-check that ends the loop over fixes with "Fixed"
notStuckAnymore(newContent, pattern) ==
  ~Truthy(newContent) \/ ~includes(newContent, pattern)

\* (variant: the list of inputs depends on the signature that matched)
fixForBySignature(stuck, k) ==
  IF stuck.pattern = stuckPatterns[1] THEN fixes[k]
  ELSE fixes[Len(fixes) + 1 - k]

\* the input of attempt k on a stuck entry: `for (const fix of fixes)`
fixFor(stuck, k) == fixes[k]

\* (variant: no break after a re-check that found the session fixed)
loopEndsNoBreak(fixed, k) == k = Len(fixes)

\* (variant: the last input of the list is never tried)
loopEndsEarly(fixed, k) == fixed \/ k >= Len(fixes) - 1

\* the loop over fixes ends after attempt k: the break, or the last fix
loopEnds(fixed, k) == fixed \/ k = Len(fixes)

\* (variant: the timer is not awaited, the loop goes on at once)
afterSendNoAwait == "fix_send"

\* line 193: `await new Promise(resolve => setTimeout(resolve, 1000))`
\* suspends autoFixStuckPrompts after every send-keys
afterSend == "fix_wait"

\* what tmux capture-pane can do for a session: it fails once the session
\* is gone
CaptureOutcomes(session) ==
  {r \in ProcOutcomes(RawScreens) : session \in vanished => r.failed}

\* exec(`tmux send-keys -t ${stuck.session} "${fix}" Enter`), its result
\* dropped, then the await of the one second timer; the session may be gone
\* by the time send-keys runs, and send-keys then fails
fixSend ==
  /\ pc = "fix_send"
  /\ LET stuck == stuckSessions[fixIdx] IN
       /\ sent' = [sent EXCEPT
                     ![stuck.session] = Append(@, fixFor(stuck, fixK))]
       /\ \E gone \in BOOLEAN :
            vanished' = IF gone THEN vanished \cup {stuck.session}
                        ELSE vanished
  /\ pc' = afterSend
  /\ UNCHANGED << envVars, mcpVars, gitVars, detVars, lastCapture, fixIdx,
                  fixK, fixedLog, rechecks, outVars, exitCode >>

\* the timer fired: re-capture the pane, then break, try the next fix or
\* run out of fixes; this only happens while the process is alive, and in
\* mode 'stuck' main calls process.exit before the timer can fire
fixCheck ==
  /\ pc = "fix_wait"
  /\ mode # "stuck"
  /\ \E r \in CaptureOutcomes(stuckSessions[fixIdx].session) :
       LET stuck == stuckSessions[fixIdx]
           newContent == exec(r)
           fixed == notStuckAnymore(newContent, stuck.pattern)
           nextSession == loopEnds(fixed, fixK)
       IN  /\ lastCapture' = (stuck.session :> newContent) @@ lastCapture
           /\ fixedLog' = IF fixed THEN fixedLog \cup {stuck.session}
                          ELSE fixedLog
           /\ rechecks' = [rechecks EXCEPT ![stuck.session] = @ + 1]
           /\ fixIdx' = IF nextSession THEN fixIdx + 1 ELSE fixIdx
           /\ fixK' = IF nextSession THEN 1 ELSE fixK + 1
           /\ pc' = IF nextSession /\ fixIdx + 1 > Len(stuckSessions)
                    THEN "alert" ELSE "fix_send"
  /\ UNCHANGED << envVars, mcpVars, gitVars, detVars, sent, vanished,
                  outVars, exitCode >>

\* process.exit(stuckSessions.length): the operating system keeps the low
\* eight bits of the status
stuckExitStatus(n) == n % 256

\* main, case 'stuck': autoFixStuckPrompts is not awaited; it ran up to its
\* first await and process.exit(stuckSessions.length) ends the process
mainStuckThen ==
  /\ mode = "stuck"
  /\ pc \in {"stuck_exit", "fix_wait"}
  /\ exitCode' = << stuckExitStatus(Len(stuckSessions)) >>
  /\ pc' = "done"
  /\ UNCHANGED << envVars, mcpVars, gitVars, detVars, lastCapture, fixVars,
                  outVars >>

\* ----------------------------------------------------- sendTokenWasteAlert
\* the variable part of alertMessage: the count and one line per session
alertMessage(stuck) ==
  [ count |-> Len(stuck),
    lines |-> [i \in 1..Len(stuck) |->
                 [session |-> stuck[i].session, pattern |-> stuck[i].pattern]] ]

\* (variant: one message per session)
dispatchEach(sentSoFar, stuck, scriptExists) ==
  IF ~scriptExists THEN sentSoFar
  ELSE sentSoFar \o [i \in 1..Len(stuck) |-> alertMessage(<< stuck[i] >>)]

\* what sendTokenWasteAlert(stuck) adds to the messages handed to
\* quick-email.js
dispatch(sentSoFar, stuck, scriptExists) ==
  IF Len(stuck) = 0 THEN sentSoFar
  ELSE IF scriptExists THEN Append(sentSoFar, alertMessage(stuck))
  ELSE sentSoFar

\* which sessions generateMonitoringReport hands to sendTokenWasteAlert
alertArgument == stuckSessions

\* lines 236-241: what the function logs about the dispatch; the result of
\* exec on line 237 is not looked at
alertLog(scriptExists, execFailed) ==
  IF scriptExists THEN "Token waste alert sent via email"
  ELSE "Email script not found - alert not sent"

\* the node quick-email.js command is run only when the script exists, and
\* it can fail
sendTokenWasteAlert ==
  /\ pc = "alert"
  /\ \E emailScriptExists \in BOOLEAN, failed \in BOOLEAN :
       /\ failed => emailScriptExists
       /\ alertCalls' =
            Append(alertCalls,
                   [ sessions |-> alertArgument,
                     emailScript |-> emailScriptExists,
                     execFailed |-> failed,
                     logged |-> alertLog(emailScriptExists, failed) ])
       /\ alerts' = dispatch(alerts, alertArgument, emailScriptExists)
  /\ pc' = "report"
  /\ UNCHANGED << envVars, mcpVars, gitVars, detVars, lastCapture, fixVars,
                  report, reportFiles, exitCode >>

\* ------------------------------------------------ generateMonitoringReport
overallHealth(stuck, mcp, git) ==
  IF Len(stuck) = 0 /\ mcp.success THEN "excellent" ELSE "needs-attention"

\* lines 267-279
buildReport ==
  [ mcp |-> mcpResult[1],
    gitProgress |-> progressData,
    stuckSessions |-> stuckSessions,
    summary |->
      [ projectsChecked |-> Cardinality(DOMAIN progressData),
        stuckPrompts |-> Len(stuckSessions),
        mcpStatus |-> IF mcpResult[1].success THEN "operational" ELSE "error",
        overallHealth |->
          overallHealth(stuckSessions, mcpResult[1], progressData) ] ]

\* assemble the report, write reports/monitoring-<now>.json, return it
generateMonitoringReport ==
  /\ pc = "report"
  /\ report' = << buildReport >>
  /\ reportFiles' = Append(reportFiles, buildReport)
  /\ pc' = "full_then"
  /\ UNCHANGED << envVars, mcpVars, gitVars, detVars, lastCapture, fixVars,
                  alertCalls, alerts, exitCode >>

\* (variant: the exit status counts the stuck sessions, as case 'stuck')
fullExitCodeCount(rep) ==
  IF rep.summary.overallHealth = "excellent" THEN 0
  ELSE rep.summary.stuckPrompts % 256

\* line 345: process.exit(report.summary.overallHealth === 'excellent' ? 0 : 1)
fullExitCode(rep) ==
  IF rep.summary.overallHealth = "excellent" THEN 0 ELSE 1

\* main, case 'full': the .then callback
mainFullThen ==
  /\ pc = "full_then"
  /\ exitCode' = << fullExitCode(report[1]) >>
  /\ pc' = "done"
  /\ UNCHANGED << envVars, mcpVars, gitVars, detVars, lastCapture, fixVars,
                  outVars >>

\* ------------------------------------------------------- calls that hang
\* the run is about to make an execSync call that has no timeout option:
\* the git commands (lines 80-82), tmux list-sessions (129), capture-pane
\* (140, 196), send-keys (192) and node quick-email.js (237); only the call
\* of runMCPMonitoring passes a timeout (line 53)
atUntimedCall ==
  \/ /\ pc = "git" /\ registryOK /\ gitIdx <= Len(projectPaths)
     /\ pathExists[projectPaths[gitIdx].name]
  \/ pc = "detect"
  \/ pc = "detect_loop" /\ detIdx <= Len(sessions)
  \/ pc = "fix_send"
  \/ pc = "fix_wait" /\ mode # "stuck"
  \/ pc = "alert"

\* the child process never exits: execSync never returns and, the call being
\* synchronous, nothing else of the process runs any more
execNeverReturns ==
  /\ atUntimedCall
  /\ pc' = "blocked"
  /\ UNCHANGED << envVars, mcpVars, gitVars, detVars, lastCapture, fixVars,
                  outVars, exitCode >>

\* ----------------------------------------------------------- specification
Next ==
  \/ main
  \/ runMCPMonitoring
  \/ mainQuickThen
  \/ checkGitProgressThrows
  \/ checkGitProject
  \/ checkGitProgressReturn
  \/ mainGitThen
  \/ detectList
  \/ detectSession
  \/ detectReturn
  \/ fixSend
  \/ fixCheck
  \/ mainStuckThen
  \/ sendTokenWasteAlert
  \/ generateMonitoringReport
  \/ mainFullThen
  \/ execNeverReturns

Spec == Init /\ [][Next]_vars

TypeOK ==
  /\ mode \in Modes
  /\ pc \in {"main", "mcp", "quick_then", "git", "git_then", "detect",
             "detect_loop", "fix_send", "fix_wait", "stuck_exit", "alert",
             "report", "full_then", "done", "crashed", "blocked"}
  /\ Len(mcpResult) <= 1 /\ Len(report) <= 1 /\ Len(exitCode) <= 1
  /\ DOMAIN progressData \subseteq ProjectNames
  /\ DOMAIN gitFailures \subseteq DOMAIN progressData
  /\ Len(projectPaths) <= MaxProjects
  /\ DOMAIN lastCapture \subseteq SessionNames
  /\ \A s \in SessionNames : Len(sent[s]) <= Len(fixes)
  /\ \A s \in SessionNames : rechecks[s] <= Len(sent[s])
  /\ vanished \subseteq {stuckSessions[i].session : i \in 1..Len(stuckSessions)}

\* ------------------------------------------------------------ vocabulary
\* names of the sessions in a list of stuck entries
sessionsOf(stuck) == {stuck[i].session : i \in 1..Len(stuck)}

\* the positions of the signatures a captured content contains
matching(v) ==
  {k \in 1..Len(stuckPatterns) : Truthy(v) /\ includes(v, stuckPatterns[k])}

\* the classes of the specification: Stalled, Active, Unknown
Stalled(v) == matching(v) # {}
Active(v) == Truthy(v) /\ matching(v) = {}
Unknown(v) == ~Truthy(v)

\* the run is past autoFixStuckPrompts and sendTokenWasteAlert
afterRecovery == mode = "full" /\ pc \in {"report", "full_then", "done"}

\* sessions whose latest capture still shows a stall signature
stillStalled == {s \in DOMAIN lastCapture : Stalled(lastCapture[s])}

gitErrors == {n \in DOMAIN progressData : "error" \in DOMAIN progressData[n]}

\* ---------------------------------------------------------------------- C1
\* C1: in a full run, summary.overallHealth is 'excellent' if and only if
\* no session is still stalled after recovery, no entry of the git-activity
\* map carries an error, and runMCPMonitoring reported success; otherwise it
\* is 'needs-attention'.  The code decides on the list detected before
\* recovery and never looks at the git entries.
C1_HealthIffAllThree ==
  report # <<>> =>
    /\ report[1].summary.overallHealth \in {"excellent", "needs-attention"}
    /\ report[1].summary.overallHealth = "excellent"
         <=> /\ stillStalled = {}
             /\ gitErrors = {}
             /\ mcpResult[1].success

\* ---------------------------------------------------------------------- C2
\* C2: a session whose capture fails or is empty is never treated as
\* healthy: detectStuckPrompts does not report it the way it reports a
\* session with non-empty content matching nothing, and autoFixStuckPrompts
\* never takes an empty or failed re-capture as a recovery.
C2_UnknownIsNotActive ==
  /\ \A s, t \in DOMAIN firstCapture :
       (pc \notin {"detect", "detect_loop"}
          /\ Unknown(firstCapture[s]) /\ Active(firstCapture[t]))
         => (s \in sessionsOf(stuckSessions))
              # (t \in sessionsOf(stuckSessions))
  /\ \A s \in fixedLog : ~Unknown(lastCapture[s])

\* ---------------------------------------------------------------------- C3
\* C3: every session the detection loop has handled is in stuckSessions if
\* and only if its captured content is non-empty and contains at least one
\* signature, and no session is listed twice.
C3_StalledIffMatch ==
  /\ \A s \in DOMAIN firstCapture :
       s \in sessionsOf(stuckSessions)
         <=> /\ ~firstCapture[s].isNull
             /\ firstCapture[s].out # <<>>
             /\ \E k \in 1..Len(stuckPatterns) :
                  stuckPatterns[k] \in Range(firstCapture[s].out)
  /\ \A i, j \in 1..Len(stuckSessions) :
       stuckSessions[i].session = stuckSessions[j].session => i = j

\* a session with text on its pane and no signature was handled and left
\* out, next to a session that was listed
C3_Witness ==
  /\ pc = "done"
  /\ \E s, t \in DOMAIN firstCapture :
       /\ Active(firstCapture[s]) /\ s \notin sessionsOf(stuckSessions)
       /\ t \in sessionsOf(stuckSessions)

\* ---------------------------------------------------------------------- C4
\* C4: the pattern recorded for a session is the earliest entry of
\* stuckPatterns that its captured content contains; an entry records one
\* pattern, and a session has one entry.
C4_EarliestPattern ==
  \A i \in 1..Len(stuckSessions) :
    LET e == stuckSessions[i]
        m == matching(firstCapture[e.session])
    IN  /\ m # {}
        /\ \E k \in m : /\ e.pattern = stuckPatterns[k]
                        /\ \A j \in m : k <= j
        /\ Cardinality({j \in 1..Len(stuckSessions) :
                          stuckSessions[j].session = e.session}) = 1

\* a pane showing two signatures, the later-listed one first on the pane
C4_Witness ==
  \E i \in 1..Len(stuckSessions) :
    /\ Cardinality(matching(firstCapture[stuckSessions[i].session])) >= 2
    /\ stuckSessions[i].content[1] # stuckSessions[i].pattern

\* ---------------------------------------------------------------------- C5
\* C5: the inputs sent to a session are a prefix of the one list `fixes`
\* (attempt k sends fixes[k], nothing skipped or repeated), whatever
\* signature matched; so a session gets at most Len(fixes) attempts.
C5_PrefixOfFixes ==
  \A s \in SessionNames :
    /\ Len(sent[s]) <= Len(fixes)
    /\ \A k \in 1..Len(sent[s]) : sent[s][k] = fixes[k]

\* two sessions stalled on different signatures, both sent the whole list
C5_Witness ==
  \E i, j \in 1..Len(stuckSessions) :
    /\ stuckSessions[i].pattern # stuckSessions[j].pattern
    /\ sent[stuckSessions[i].session] = fixes
    /\ sent[stuckSessions[j].session] = fixes

\* ---------------------------------------------------------------------- C6
\* C6: once a re-check found a session no longer stuck (it is logged as
\* fixed), no further input is sent to it in this run, and the loop goes on
\* with the next stuck session: every listed session has been sent an input
\* by the time recovery is over.
C6_NoInputAfterFixed ==
  [][ /\ \A s \in fixedLog : sent'[s] = sent[s]
      /\ (fixedLog' # fixedLog /\ fixIdx < Len(stuckSessions))
           => (pc' = "fix_send" /\ fixIdx' = fixIdx + 1 /\ fixK' = 1)
      /\ afterRecovery' =>
           \A i \in 1..Len(stuckSessions') :
             sent'[stuckSessions'[i].session] # <<>> ]_vars

\* the first stuck session was fixed before the list of inputs ran out, and
\* the second one was sent inputs after that
C6_Witness ==
  /\ Len(stuckSessions) = 2
  /\ stuckSessions[1].session \in fixedLog
  /\ Len(sent[stuckSessions[1].session]) < Len(fixes)
  /\ Len(sent[stuckSessions[2].session]) >= 2

\* ---------------------------------------------------------------------- C7
\* sessions recovery left in good shape: logged as fixed and their pane now
\* shows text without any signature
recovered == {s \in fixedLog : Active(lastCapture[s])}

\* C7: the alert of a full run covers only sessions that exhausted recovery:
\* no recovered session is listed in an alert, and a run whose stalled
\* sessions were all recovered sends no alert.  The code hands the whole
\* detected list to sendTokenWasteAlert.
C7_AlertOnlyUnresolved ==
  /\ \A a \in 1..Len(alerts) : \A j \in 1..Len(alerts[a].lines) :
       alerts[a].lines[j].session \notin recovered
  /\ (afterRecovery /\ sessionsOf(stuckSessions) \subseteq recovered)
       => alerts = <<>>

C9_OneBatchedAlert ==
  /\ Len(alertCalls) <= 1
  /\ Len(alerts) <= Len(alertCalls)
  /\ \A a \in 1..Len(alerts) :
       /\ alerts[a].count = Len(alertCalls[1].sessions)
       /\ alerts[a].count > 0
       /\ {alerts[a].lines[j].session : j \in 1..Len(alerts[a].lines)}
            = sessionsOf(alertCalls[1].sessions)
  /\ \A c \in 1..Len(alertCalls) :
       Len(alertCalls[c].sessions) = 0 => alerts = <<>>
  /\ (pc = "done" /\ stuckSessions = <<>>) => alerts = <<>>

\* one message for two sessions
C9_Witness ==
  /\ pc = "done"
  /\ Len(alerts) = 1
  /\ alerts[1].count = 2
  /\ Len(alerts[1].lines) = 2

\* --------------------------------------------------------------------- C10
\* the loop of checkGitProgress is past project number i (a run held in a
\* call that never returns stays where its loop was)
inspected(i) ==
  /\ pc \notin {"main", "mcp", "crashed"}
  /\ pc \in {"git", "blocked"} => gitIdx > i

\* C10: whatever went wrong with a project (path missing, chdir throwing,
\* git commands failing), every project whose path exists has its entry
\* once the loop is past it; the only abort is the registry failing to
\* load, before any project is looked at; the report of a full run has all
\* these entries.
C10_GitIsolation ==
  /\ \A i \in 1..Len(projectPaths) :
       ( /\ mode \in {"full", "git"}
         /\ inspected(i)
         /\ pathExists[projectPaths[i].name] )
         => projectPaths[i].name \in DOMAIN progressData
  /\ pc = "crashed" => progressData = <<>>
  /\ report # <<>> =>
       \A i \in 1..Len(projectPaths) :
         pathExists[projectPaths[i].name]
           => projectPaths[i].name \in DOMAIN report[1].gitProgress

\* a report in which the first project carries an error and the second one,
\* inspected after it, has its commit and branch
C10_Witness ==
  /\ report # <<>>
  /\ Len(projectPaths) = 2
  /\ LET g == report[1].gitProgress
         a == projectPaths[1].name
         b == projectPaths[2].name
     IN  /\ a \in DOMAIN g /\ "error" \in DOMAIN g[a]
         /\ b \in DOMAIN g /\ "error" \notin DOMAIN g[b]
         /\ g[b].latestCommit # <<>>

\* --------------------------------------------------------------------- C11
registryNames == {projectPaths[i].name : i \in 1..Len(projectPaths)}

\* C11: the git-activity map of a report has exactly one entry for every
\* project of the registry, the projects whose path does not exist
\* included.  The code writes no entry at all for a missing path.
C11_EntryPerProject ==
  /\ report # <<>> => DOMAIN report[1].gitProgress = registryNames
  /\ (mode = "git" /\ pc = "done") => DOMAIN progressData = registryNames

\* --------------------------------------------------------------------- C12
\* C12: when one of the three git inspections of a project fails, the
\* entry of that project carries an error; in particular a failed
\* `git status` is never reported as 0 pending changes without an error.
\* exec turns every failure into null and the entry is built from defaults.
C12_FailedInspectionHasError ==
  \A n \in DOMAIN gitFailures :
    gitFailures[n] # {} =>
      /\ n \in DOMAIN progressData
      /\ "error" \in DOMAIN progressData[n]

\* --------------------------------------------------------------------- C13
\* C13: every completed full run exits with status 0 exactly when the
\* overallHealth of its report is 'excellent', and with status 1 otherwise;
\* the status is never a count of sessions.
C13_FullExitStatus ==
  (mode = "full" /\ pc = "done") =>
    /\ report # <<>>
    /\ exitCode \in {<< 0 >>, << 1 >>}
    /\ exitCode = << 0 >> <=> report[1].summary.overallHealth = "excellent"

\* a completed full run that found two stuck sessions exits with 1
C13_Witness ==
  /\ mode = "full" /\ pc = "done"
  /\ report[1].summary.stuckPrompts = 2
  /\ exitCode = << 1 >>

\* --------------------------------------------------------------------- C14
keystrokes == {s \in SessionNames : sent[s] # <<>>}

\* C14: modes 'quick' and 'git' inject no keystroke, dispatch no alert and
\* write no report file; an alert or a report file occurs only in mode
\* 'full', a keystroke only in modes 'full' and 'stuck'.
C14_EffectsByMode ==
  /\ mode \in {"quick", "git"} =>
       keystrokes = {} /\ alerts = <<>> /\ reportFiles = <<>>
  /\ (alerts # <<>> \/ reportFiles # <<>>) => mode = "full"
  /\ keystrokes # {} => mode \in {"full", "stuck"}

\* a finished 'stuck' run that injected a key, and neither alerted nor wrote
\* a report
C14_Witness ==
  /\ mode = "stuck" /\ pc = "done"
  /\ keystrokes # {} /\ alerts = <<>> /\ reportFiles = <<>>

\* --------------------------------------------------------------------- C15
\* the loop over fixes of a session reached an end: "Fixed" was logged, or
\* every input of the list was sent and re-checked
terminal(s) ==
  /\ s \in fixedLog \/ sent[s] = fixes
  /\ rechecks[s] = Len(sent[s])

\* C15: when a run in mode 'stuck' has exited, every session detected as
\* stalled has had its loop run to an end, and every input sent was followed
\* by its re-check.  main does not await autoFixStuckPrompts: process.exit
\* runs while the loop waits on its first timer.
C15_StuckModeFinishesRecovery ==
  (mode = "stuck" /\ pc = "done") =>
    \A s \in sessionsOf(stuckSessions) : terminal(s)

\* --------------------------------------------------------------------- C16
\* C16: inputs into one session are serialized: a step sends at most one
\* input, and when an input is sent to a session every earlier input to that
\* session has already been followed by the timer and a re-capture.
C16_SerializedInjections ==
  [][ \A s \in SessionNames :
        sent'[s] # sent[s] =>
          /\ Len(sent'[s]) = Len(sent[s]) + 1
          /\ rechecks[s] = Len(sent[s])
          /\ \A t \in SessionNames \ {s} : sent'[t] = sent[t] ]_vars

\* a session got its second input, after one re-check
C16_Witness ==
  \E s \in SessionNames : Len(sent[s]) = 2 /\ rechecks[s] = 1

\* --------------------------------------------------------------------- C17
\* C17: when send-keys fails because the session is gone, the loop over
\* fixes of that session ends there (no further input is started for it) and
\* the session is never logged as fixed.  The result of send-keys is
\* dropped; the re-capture of the missing session returns null, which line
\* 197 takes for a fixed session.
C17_VanishedIsStillStuck ==
  \A s \in vanished :
    /\ s \notin fixedLog
    /\ ~(pc = "fix_send" /\ stuckSessions[fixIdx].session = s)

\* --------------------------------------------------------------------- C18
\* the dispatch of a call of sendTokenWasteAlert failed: no email script, or
\* the send command failed
dispatchFailed(call) == ~call.emailScript \/ call.execFailed

\* C18: a failed alert dispatch does not abort a full run (the report file
\* is written and the report returned), and the failure is recorded, not
\* reported as a successful send.  The code logs "alert sent" whatever exec
\* returned.
C18_DispatchFailureRecorded ==
  /\ \A i \in 1..Len(alertCalls) :
       dispatchFailed(alertCalls[i]) =>
         alertCalls[i].logged # "Token waste alert sent via email"
  /\ (mode = "full" /\ pc = "done"
        /\ \E i \in 1..Len(alertCalls) : dispatchFailed(alertCalls[i]))
       => report # <<>> /\ Len(reportFiles) = 1

\* --------------------------------------------------------------------- C19
\* C19: when configs/project-paths.json is missing or does not parse, a full
\* run stops before the detection of stuck prompts starts: no session is
\* listed or captured, no input is sent, no alert is dispatched and no
\* report is built or written.
C19_BrokenRegistryAborts ==
  (mode = "full" /\ ~registryOK) =>
    /\ pc \in {"main", "mcp", "git", "crashed"}
    /\ sessions = <<>> /\ firstCapture = <<>> /\ lastCapture = <<>>
    /\ keystrokes = {}
    /\ alertCalls = <<>> /\ alerts = <<>>
    /\ report = <<>> /\ reportFiles = <<>>

\* a full run died on the registry, after runMCPMonitoring had returned
C19_Witness ==
  /\ mode = "full" /\ ~registryOK
  /\ pc = "crashed" /\ mcpResult # <<>>

\* --------------------------------------------------------------------- C20
\* C20: an external call that never returns (a pane capture, a git command,
\* a key injection, the alert dispatch) does not stop the run: the other
\* units are still handled and the run goes on to its report and its exit.
\* Stated on states: the run is never held for good inside such a call.
\* Those calls are execSync without a timeout, so the process waits forever.
C20_HangDoesNotBlockTheRun == pc # "blocked"

\* --------------------------------------------------------------------- C21
\* the phases generateMonitoringReport awaits before line 267
phasesFinished ==
  /\ mcpResult # <<>>
  /\ gitIdx > Len(projectPaths)
  /\ pc # "detect" /\ detIdx > Len(sessions)
  /\ \A s \in sessionsOf(stuckSessions) : terminal(s)
  /\ stuckSessions # <<>> => Len(alertCalls) = 1

\* C21: a full run assembles its report once, after the MCP check, the git
\* check, the detection, the recovery of every stuck session and the alert
\* have finished; it writes one report file, and the object it returns has
\* the content of that file.
C21_ReportOnceAtTheEnd ==
  /\ Len(reportFiles) <= 1
  /\ report # <<>> => phasesFinished /\ reportFiles = report
  /\ reportFiles # <<>> => phasesFinished
  /\ (mode = "full" /\ pc = "done") => Len(reportFiles) = 1 /\ report # <<>>

\* a completed full run whose report follows the recovery of two sessions
C21_Witness ==
  /\ mode = "full" /\ pc = "done"
  /\ Len(stuckSessions) = 2
  /\ Len(reportFiles) = 1 /\ reportFiles[1].summary.stuckPrompts = 2

\* --------------------------------------------------------------------- C22
\* the entry of stuckSessions for session s, as a sequence of 0 or 1 entry
entryOf(s) ==
  SelectSeq(stuckSessions, LAMBDA e : e.session = s)

\* C22: the classification of detectStuckPrompts depends on the captured
\* content alone: two sessions of a run whose captures are equal are both
\* stalled or both not stalled, and with the same matched pattern, whatever
\* their order and whatever was classified before them.
C22_ClassificationDeterministic ==
  \A s, t \in DOMAIN firstCapture :
    firstCapture[s] = firstCapture[t] =>
      /\ Len(entryOf(s)) = Len(entryOf(t))
      /\ Len(entryOf(s)) = 1 =>
           /\ entryOf(s)[1].pattern = entryOf(t)[1].pattern
           /\ entryOf(s)[1].content = entryOf(t)[1].content

\* two different sessions with the same capture, both classified as stalled
C22_Witness ==
  \E s, t \in DOMAIN firstCapture :
    /\ s # t
    /\ firstCapture[s] = firstCapture[t]
    /\ Len(entryOf(s)) = 1 /\ Len(entryOf(t)) = 1

\* ======================================================= lib/commands.ts
\* Strings of command lines are sequences of pieces; " " is the separator
\* that join(' ') and the template strings put between the pieces.
MaxCommands == 3       \* commands handed to executeSequence

\* args.join(' ')
RECURSIVE Join(_)
Join(list) ==
  IF list = <<>> THEN <<>>
  ELSE IF Len(list) = 1 THEN list[1]
  ELSE list[1] \o << " " >> \o Join(Tail(list))

\* args ? `${command} ${args.join(' ')}` : command
commandString(command, args) ==
  IF args.given THEN command \o << " " >> \o Join(args.list) ELSE command

\* all the monitor's variables: a call into the library leaves them alone
monVars ==
  << mode, registryOK, projectPaths, pathExists, pc, mcpResult, gitIdx,
     progressData, gitFailures, sessions, detIdx, stuckSessions,
     firstCapture, lastCapture, fixIdx, fixK, sent, fixedLog, rechecks,
     vanished, alertCalls, alerts, report, reportFiles, exitCode >>

\* the monitoring script is not running
MonitorIdle ==
  /\ mode = "full" /\ registryOK = TRUE
  /\ projectPaths = <<>> /\ pathExists = <<>>
  /\ pc = "main"
  /\ mcpResult = <<>>
  /\ gitIdx = 1 /\ progressData = <<>> /\ gitFailures = <<>>
  /\ sessions = <<>> /\ detIdx = 1 /\ stuckSessions = <<>>
  /\ firstCapture = <<>> /\ lastCapture = <<>>
  /\ fixIdx = 1 /\ fixK = 1
  /\ sent = [s \in SessionNames |-> <<>>]
  /\ fixedLog = {} /\ rechecks = [s \in SessionNames |-> 0]
  /\ vanished = {}
  /\ alertCalls = <<>> /\ alerts = <<>>
  /\ report = <<>> /\ reportFiles = <<>> /\ exitCode = <<>>

\* ---------------------------------------------------------- child process
\* exit statuses a failing child can report
ExitStatuses == {1, 2, 127}

\* what exec / execSync can do with a command: resolve with the output, or
\* throw an error that carries the status of the child, or none when the
\* child was killed (timeout) or never spawned
ChildOutputs == { << "v18" >>, << "v18", BlankLine >>, <<>> }

ChildOutcomes ==
  [failed : {FALSE}, hasStatus : {FALSE}, status : {0}, out : ChildOutputs]
  \cup [failed : {TRUE}, hasStatus : {TRUE}, status : ExitStatuses,
        out : {<<>>}]
  \cup [failed : {TRUE}, hasStatus : {FALSE}, status : {0}, out : {<<>>}]

\* (variant: the status of the error is passed on as it is)
failureExitCodeRaw(o) == IF o.hasStatus THEN o.status ELSE 0

\* `error.code || 1` (execute), `error.status || 1` (executeSync)
failureExitCode(o) == IF o.hasStatus /\ o.status # 0 THEN o.status ELSE 1

\* the CommandResult built by the try or by the catch of execute and
\* executeSync (duration left out)
commandResult(o) ==
  IF ~o.failed
  THEN [ success |-> TRUE, stdout |-> trim(o.out), exitCode |-> 0,
         error |-> "" ]
  ELSE [ success |-> FALSE, stdout |-> trim(o.out),
         exitCode |-> failureExitCode(o), error |-> "Command failed" ]

\* ------------------------------------------------------------- the calls
StepNames == << "first", "second", "third", "fourth", "fifth" >>

\* execution.environment of a command: none, or CONTINUE_ON_ERROR empty or
\* non-empty
Environments ==
  { <<>>, ("CONTINUE_ON_ERROR" :> ""), ("CONTINUE_ON_ERROR" :> "1") }

\* the i-th command of a list, with its environment
Execution(i, env) ==
  [ command |-> << "echo" >>,
    args |-> [given |-> TRUE, list |-> << << StepNames[i] >> >>],
    environment |-> env ]

ExecutionLists ==
  UNION { { [i \in 1..n |-> Execution(i, envs[i])] :
              envs \in [1..n -> Environments] } : n \in 0..MaxCommands }

ExecutorCalls ==
  { [op |-> "executeSequence", executions |-> es] : es \in ExecutionLists }
  \cup { [op |-> o, executions |-> << Execution(1, <<>>) >>] :
           o \in {"execute", "executeSync"} }

\* execution.environment?.CONTINUE_ON_ERROR, as a condition
continueOnError(execution) ==
  /\ "CONTINUE_ON_ERROR" \in DOMAIN execution.environment
  /\ execution.environment["CONTINUE_ON_ERROR"] # ""

\* (variant: every failure stops the sequence)
stopsSequenceAnyFailure(result, execution) == ~result.success

\* line 421: the break of executeSequence
stopsSequence(result, execution) ==
  ~result.success /\ ~continueOnError(execution)

executionString(execution) == commandString(execution.command, execution.args)

\* CommandExecutor.execute
execute ==
  /\ libCall.op = "execute" /\ lpc = "call"
  /\ started' = Append(started, executionString(libCall.executions[1]))
  /\ \E o \in ChildOutcomes : response' = << commandResult(o) >>
  /\ lpc' = "returned"
  /\ UNCHANGED << libCall, results, diskVars, monVars >>

\* CommandExecutor.executeSync
executeSync ==
  /\ libCall.op = "executeSync" /\ lpc = "call"
  /\ started' = Append(started, executionString(libCall.executions[1]))
  /\ \E o \in ChildOutcomes : response' = << commandResult(o) >>
  /\ lpc' = "returned"
  /\ UNCHANGED << libCall, results, diskVars, monVars >>

\* executeSequence: the loop takes the next command and calls this.execute
executeSequenceNext ==
  /\ libCall.op = "executeSequence" /\ lpc = "call"
  /\ Len(results) < Len(libCall.executions)
  /\ started' =
       Append(started, executionString(libCall.executions[Len(results) + 1]))
  /\ lpc' = "await"
  /\ UNCHANGED << libCall, results, response, diskVars, monVars >>

\* executeSequence: the awaited execute settled; push, then break or go on
executeSequenceSettle ==
  /\ libCall.op = "executeSequence" /\ lpc = "await"
  /\ \E o \in ChildOutcomes :
       LET result == commandResult(o)
           execution == libCall.executions[Len(results) + 1]
       IN  /\ results' = Append(results, result)
           /\ lpc' = IF stopsSequence(result, execution) THEN "break"
                     ELSE "call"
  /\ UNCHANGED << libCall, started, response, diskVars, monVars >>

\* executeSequence: return results
executeSequenceReturn ==
  /\ libCall.op = "executeSequence"
  /\ \/ lpc = "break"
     \/ lpc = "call" /\ Len(results) = Len(libCall.executions)
  /\ response' = << results >>
  /\ lpc' = "returned"
  /\ UNCHANGED << libCall, started, results, diskVars, monVars >>

\* ------------------------------------------------ checkSystemDependencies
dependencies ==
  << [name |-> "Node.js", command |-> << "node" >>, args |-> << "--version" >>],
     [name |-> "npm", command |-> << "npm" >>, args |-> << "--version" >>],
     [name |-> "Git", command |-> << "git" >>, args |-> << "--version" >>],
     [name |-> "Python3", command |-> << "python3" >>,
      args |-> << "--version" >>],
     [name |-> "tmux", command |-> << "tmux" >>, args |-> << "-V" >>] >>

\* the execution built from a dependency (lines 588-591)
dependencyExecution(dep) ==
  [ command |-> dep.command,
    args |-> [given |-> TRUE, list |-> << dep.args >>],
    environment |-> <<>> ]

\* executeParallel: map calls execute for every dependency, and each call
\* runs up to its await of execAsync: all five children are started
checkSystemDependenciesStart ==
  /\ libCall.op = "checkSystemDependencies" /\ lpc = "call"
  /\ started' = [i \in 1..Len(dependencies) |->
                   executionString(dependencyExecution(dependencies[i]))]
  /\ lpc' = "await"
  /\ UNCHANGED << libCall, results, response, diskVars, monVars >>

\* one of the pending executes settles; Promise.all keeps the index
checkSystemDependenciesSettle ==
  /\ libCall.op = "checkSystemDependencies" /\ lpc = "await"
  /\ \E i \in (1..Len(dependencies)) \ DOMAIN results, o \in ChildOutcomes :
       results' = (i :> commandResult(o)) @@ results
  /\ UNCHANGED << libCall, lpc, started, response, diskVars, monVars >>

\* one line of the summary: `${dep.name}: ${...}`
summaryLine(dep, result) ==
  << dep.name, IF result.success THEN result.stdout ELSE << "Not found" >> >>

\* (variant: one dependency found is enough)
allFoundSome(rs) == \E i \in DOMAIN rs : rs[i].success

\* results.every(r => r.success)
allFound(rs) == \A i \in DOMAIN rs : rs[i].success

\* Promise.all resolved: build the summary and the overall result
checkSystemDependenciesReturn ==
  /\ libCall.op = "checkSystemDependencies" /\ lpc = "await"
  /\ DOMAIN results = 1..Len(dependencies)
  /\ response' =
       << [ success |-> allFound(results),
            stdout |-> [i \in 1..Len(dependencies) |->
                          summaryLine(dependencies[i], results[i])],
            exitCode |-> IF allFound(results) THEN 0 ELSE 1,
            error |-> "" ] >>
  /\ lpc' = "returned"
  /\ UNCHANGED << libCall, started, results, diskVars, monVars >>

ClaudeCalls == { [op |-> "checkSystemDependencies"] }

\* ------------------------------------------- validateCommand and callers
MaxArgs == 2           \* arguments of a validated command

dangerousCommands ==
  << << "rm", " ", "-rf" >>, << "sudo", " ", "rm" >>, << "format" >>,
     << "fdisk" >> >>

\* String.prototype.includes on command lines
stringIncludes(str, sub) ==
  \E i \in 0..(Len(str) - Len(sub)) : SubSeq(str, i + 1, i + Len(sub)) = sub

\* (variant: only the command name is looked at)
validateCommandNameOnly(command, args) ==
  ~\E k \in 1..Len(dangerousCommands) :
     stringIncludes(command, dangerousCommands[k])

\* validateCommand: no entry of the list occurs in the full command line
validateCommand(command, args) ==
  ~\E k \in 1..Len(dangerousCommands) :
     stringIncludes(commandString(command, args), dangerousCommands[k])

\* the characters sanitizeCommandArgs removes (line 649)
removedCharacters ==
  { ";", "&", "|", "backquote", "$", "(", ")", "{", "}" }

sanitizeCommandArgs(args) ==
  [i \in 1..Len(args) |->
     SelectSeq(args[i], LAMBDA piece : piece \notin removedCharacters)]

\* `args ? sanitizeCommandArgs(args) : undefined`
sanitized(args) ==
  IF args.given THEN [given |-> TRUE, list |-> sanitizeCommandArgs(args.list)]
  ELSE args

securityFailure ==
  [ success |-> FALSE, stdout |-> <<>>, exitCode |-> 1,
    error |-> "Command failed security validation" ]

\* quickExecute
quickExecute ==
  /\ libCall.op = "quickExecute" /\ lpc = "call"
  /\ IF ~validateCommand(libCall.command, libCall.args)
     THEN /\ response' = << securityFailure >>
          /\ started' = started
     ELSE /\ started' = Append(started, commandString(libCall.command,
                                                      sanitized(libCall.args)))
          /\ \E o \in ChildOutcomes : response' = << commandResult(o) >>
  /\ lpc' = "returned"
  /\ UNCHANGED << libCall, results, diskVars, monVars >>

\* quickExecuteSync
quickExecuteSync ==
  /\ libCall.op = "quickExecuteSync" /\ lpc = "call"
  /\ IF ~validateCommand(libCall.command, libCall.args)
     THEN /\ response' = << securityFailure >>
          /\ started' = started
     ELSE /\ started' = Append(started, commandString(libCall.command,
                                                      sanitized(libCall.args)))
          /\ \E o \in ChildOutcomes : response' = << commandResult(o) >>
  /\ lpc' = "returned"
  /\ UNCHANGED << libCall, results, diskVars, monVars >>

\* the answer of the route handler: HTTP status and body
answer(status, ok, err) == [status |-> status, success |-> ok, error |-> err]

\* the command line a supported command of the API runs (two of the cases
\* of the switch: 'doctor' and 'npm-script')
routed(command, args) ==
  IF command = << "doctor" >> THEN << "node", " ", "scripts/doctor.js" >>
  ELSE << "npm", " ", "run", " " >> \o args.list[1]

\* POST of the command API
POST ==
  /\ libCall.op = "POST" /\ lpc = "call"
  /\ LET command == libCall.command
         args == libCall.args
     IN  IF command = <<>>
         THEN /\ response' = << answer(400, FALSE, "Command is required") >>
              /\ started' = started
         ELSE IF ~validateCommand(command, args)
         THEN /\ response' =
                   << answer(403, FALSE, "Command failed security validation") >>
              /\ started' = started
         ELSE IF command \notin { << "doctor" >>, << "npm-script" >> }
         THEN /\ response' = << answer(400, FALSE, "Unsupported command") >>
              /\ started' = started
         ELSE IF command = << "npm-script" >>
                   /\ (~args.given \/ Len(args.list) < 1)
         THEN /\ response' = << answer(400, FALSE, "NPM script required") >>
              /\ started' = started
         ELSE /\ started' = Append(started, routed(command, args))
              /\ \E o \in ChildOutcomes :
                   response' = << answer(200, commandResult(o).success,
                                         commandResult(o).error) >>
  /\ lpc' = "returned"
  /\ UNCHANGED << libCall, results, diskVars, monVars >>

CommandPool ==
  { <<>>, << "ls" >>, << "rm" >>, << "rm", " ", "-rf" >>, << "sudo" >>,
    << "fdisk" >>, << "doctor" >>, << "npm-script" >> }

ArgPool ==
  { << "-rf" >>, << "rm" >>, << "-r", ";", "f" >>, << "--", "format", "=x" >>,
    << "build" >> }

ArgLists ==
  { [given |-> FALSE, list |-> <<>>] }
  \cup { [given |-> TRUE, list |-> l] : l \in SeqsUpTo(ArgPool, MaxArgs) }

ValidatedCalls ==
  [ op : {"quickExecute", "quickExecuteSync", "POST"},
    command : CommandPool, args : ArgLists ]

\* nothing on disk is involved
DiskIdle ==
  /\ configFile = [exists |-> FALSE]
  /\ configWrites = <<>>
  /\ ReportsIdle

CommandInit ==
  /\ MonitorIdle
  /\ DiskIdle
  /\ libCall \in ExecutorCalls \cup ClaudeCalls \cup ValidatedCalls
  /\ lpc = "call"
  /\ started = <<>>
  /\ results = <<>>
  /\ response = <<>>

CommandNext ==
  \/ execute
  \/ executeSync
  \/ executeSequenceNext
  \/ executeSequenceSettle
  \/ executeSequenceReturn
  \/ checkSystemDependenciesStart
  \/ checkSystemDependenciesSettle
  \/ checkSystemDependenciesReturn
  \/ quickExecute
  \/ quickExecuteSync
  \/ POST

CommandSpec == CommandInit /\ [][CommandNext]_vars

\* --------------------------------------------------------------------- C23
\* the command lines of the first k commands of a list
commandLines(executions, k) ==
  [i \in 1..k |-> executionString(executions[i])]

\* result i of rs is a failure of a command that does not ask to continue
stopsAt(executions, rs, i) ==
  ~rs[i].success /\ ~continueOnError(executions[i])

C25_DependencySummary ==
  (libCall.op = "checkSystemDependencies" /\ lpc = "returned") =>
    LET r == response[1] IN
    /\ Len(started) = 5 /\ DOMAIN results = 1..5
    /\ Len(r.stdout) = 5
    /\ \A i \in 1..5 :
         /\ r.stdout[i][1] = dependencies[i].name
         /\ started[i][1] = dependencies[i].command[1]
         /\ results[i].success => r.stdout[i][2] = results[i].stdout
         /\ ~results[i].success => r.stdout[i][2] = << "Not found" >>
    /\ r.success <=> \A i \in 1..5 : results[i].success
    /\ r.exitCode = IF r.success THEN 0 ELSE 1

\* npm and tmux are missing, the three others answer: five lines, failure
C25_Witness ==
  /\ libCall.op = "checkSystemDependencies" /\ lpc = "returned"
  /\ ~results[2].success /\ ~results[5].success
  /\ results[1].success /\ results[3].success /\ results[4].success
  /\ response[1].stdout[2] = << "npm", << "Not found" >> >>
  /\ response[1].exitCode = 1

\* --------------------------------------------------------------------- C26
validatedOps == {"quickExecute", "quickExecuteSync", "POST"}

\* the full command line of the request contains an entry of the list
dangerousRequest ==
  /\ libCall.op \in validatedOps
  /\ \E k \in 1..Len(dangerousCommands) :
       stringIncludes(commandString(libCall.command, libCall.args),
                      dangerousCommands[k])

NamePool == {"existing", "new-project"}
PathPool == {"/existing/path", "/new/path"}

\* the maps a projectPaths member can hold
PathMaps == UNION { [D -> PathPool] : D \in SUBSET NamePool }

\* what project-paths.json can hold: text that is not JSON, the JSON value
\* null, an object without a projectPaths member, or a full configuration
\* (its other members stand as `tools`)
ConfigTexts ==
  { [shape |-> "invalid"], [shape |-> "null"],
    [shape |-> "object", hasPaths |-> FALSE, tools |-> "tools"] }
  \cup { [shape |-> "object", hasPaths |-> TRUE, projectPaths |-> f,
          tools |-> "tools"] : f \in PathMaps }

ConfigFiles ==
  { [exists |-> FALSE] }
  \cup { [exists |-> TRUE, text |-> t] : t \in ConfigTexts }

\* readConfigFile: the parsed value, or null after the catch; JSON.parse
\* gives back the value JSON.stringify was given
readConfigFile(file) ==
  IF ~file.exists THEN [shape |-> "null"]
  ELSE IF file.text.shape = "invalid" THEN [shape |-> "null"]
  ELSE file.text

\* `!config`
isNull(config) == config.shape = "null"

\* config.projectPaths[name] = path
withPath(config, name, path) ==
  [config EXCEPT !.projectPaths = (name :> path) @@ @]

\* delete config.projectPaths[name]
withoutPath(config, name) ==
  [config EXCEPT !.projectPaths =
     [n \in (DOMAIN @) \ {name} |-> @[n]]]

\* getProjectPaths
getProjectPaths ==
  /\ libCall.op = "getProjectPaths" /\ lpc = "call"
  /\ response' = << [threw |-> FALSE, value |-> readConfigFile(configFile)] >>
  /\ lpc' = "returned"
  /\ UNCHANGED << libCall, started, results, diskVars, monVars >>

\* updateProjectPaths -> writeConfigFile(data): writeFileSync may throw, the
\* catch turns that into false
writeConfigFile(data, writeFails) ==
  /\ configWrites' = Append(configWrites, data)
  /\ configFile' = IF writeFails THEN configFile
                   ELSE [exists |-> TRUE, text |-> data]
  /\ response' = << [threw |-> FALSE, value |-> ~writeFails] >>
  /\ UNCHANGED reportVars

\* the member access on a parsed value without projectPaths throws a
\* TypeError that nothing in ConfigManager catches
throwsTypeError ==
  /\ response' = << [threw |-> TRUE, value |-> FALSE] >>
  /\ UNCHANGED diskVars

\* addProjectPath(name, path)
addProjectPath ==
  /\ libCall.op = "addProjectPath" /\ lpc = "call"
  /\ LET config == readConfigFile(configFile) IN
       IF isNull(config)
       THEN /\ response' = << [threw |-> FALSE, value |-> FALSE] >>
            /\ UNCHANGED diskVars
       ELSE IF ~config.hasPaths THEN throwsTypeError
       ELSE \E writeFails \in BOOLEAN :
              writeConfigFile(withPath(config, libCall.name, libCall.path),
                              writeFails)
  /\ lpc' = "returned"
  /\ UNCHANGED << libCall, started, results, monVars >>

\* removeProjectPath(name)
removeProjectPath ==
  /\ libCall.op = "removeProjectPath" /\ lpc = "call"
  /\ LET config == readConfigFile(configFile) IN
       IF isNull(config)
       THEN /\ response' = << [threw |-> FALSE, value |-> FALSE] >>
            /\ UNCHANGED diskVars
       ELSE IF ~config.hasPaths THEN throwsTypeError
       ELSE \E writeFails \in BOOLEAN :
              writeConfigFile(withoutPath(config, libCall.name), writeFails)
  /\ lpc' = "returned"
  /\ UNCHANGED << libCall, started, results, monVars >>

\* a call of ConfigManager; `file` remembers the file the call found
ConfigCalls ==
  [ op : {"getProjectPaths", "addProjectPath", "removeProjectPath"},
    name : NamePool, path : PathPool, file : ConfigFiles ]

ConfigInit ==
  /\ MonitorIdle
  /\ libCall \in ConfigCalls
  /\ lpc = "call"
  /\ started = <<>> /\ results = <<>> /\ response = <<>>
  /\ configFile = libCall.file
  /\ configWrites = <<>>
  /\ ReportsIdle

ConfigNext ==
  \/ getProjectPaths
  \/ addProjectPath
  \/ removeProjectPath

ConfigSpec == ConfigInit /\ [][ConfigNext]_vars

\* --------------------------------------------------------------------- C27
\* the file is missing or does not hold JSON
unreadable(file) == ~file.exists \/ file.text.shape = "invalid"

\* the file parses to a value other than null: getProjectPaths hands it out
readable(file) == ~isNull(readConfigFile(file))

\* C27: getProjectPaths never throws and returns null for a missing or
\* unparseable file; addProjectPath and removeProjectPath then return false
\* and write nothing; on a readable file addProjectPath(name, path) writes a
\* configuration in which name maps to path and the other entries are as
\* they were.  A file that parses to something without projectPaths makes
\* addProjectPath throw.
C27_ConfigReadsAndAdd ==
  lpc = "returned" =>
    LET r == response[1] IN
    /\ libCall.op = "getProjectPaths" =>
         /\ ~r.threw
         /\ unreadable(libCall.file) => isNull(r.value)
    /\ (libCall.op # "getProjectPaths" /\ unreadable(libCall.file)) =>
         /\ ~r.threw /\ r.value = FALSE
         /\ configWrites = <<>> /\ configFile = libCall.file
    /\ (libCall.op = "addProjectPath" /\ readable(libCall.file)) =>
         /\ ~r.threw
         /\ Len(configWrites) = 1
         /\ LET old == libCall.file.text.projectPaths
                new == configWrites[1].projectPaths
            IN  /\ libCall.name \in DOMAIN new
                /\ new[libCall.name] = libCall.path
                /\ DOMAIN new = DOMAIN old \cup {libCall.name}
                /\ \A n \in DOMAIN old \ {libCall.name} : new[n] = old[n]

MaxStalled == 256      \* sessions detectStuckPrompts can report as stuck

\* the .then callback of case 'stuck' for a result of detectStuckPrompts
\* with libCall.count entries: the status the parent process observes
mainStuckExit ==
  /\ libCall.op = "stuck" /\ lpc = "call"
  /\ response' = << stuckExitStatus(libCall.count) >>
  /\ lpc' = "returned"
  /\ UNCHANGED << libCall, started, results, diskVars, monVars >>

StuckExitInit ==
  /\ MonitorIdle
  /\ DiskIdle
  /\ libCall \in [op : {"stuck"}, count : 0..MaxStalled]
  /\ lpc = "call"
  /\ started = <<>> /\ results = <<>> /\ response = <<>>

StuckExitNext == mainStuckExit

StuckExitSpec == StuckExitInit /\ [][StuckExitNext]_vars

\* --------------------------------------------------------------------- C29
\* C29: in mode 'stuck' the exit status is the number of sessions that
\* detectStuckPrompts found stuck: 0 exactly when there is none, non-zero
\* when there is at least one.  The status of a process has eight bits.
C29_StuckExitIsCount ==
  (libCall.op = "stuck" /\ lpc = "returned") =>
    /\ response[1] = libCall.count
    /\ response[1] = 0 <=> libCall.count = 0

\* ================================== the reports directory, several runs
\* summary.overallHealth of a report
Healths == {"excellent", "needs-attention"}

\* the name generateMonitoringReport gives the file of a report saved at
\* millisecond t: monitoring-<t>.json, kept as t
reportFileName(t) == t

\* fs.writeFileSync(file, content): the file is created, or replaced when
\* a file of that name is there
writeFileSync(files, file, content) == (file :> content) @@ files

\* everything but the reports directory and the runs
notReportVars ==
  << libCall, lpc, started, results, response, configFile, configWrites,
     monVars >>

\* `node enhanced-monitoring.js full` is started: from the command line or
\* by the 'comprehensive-check' action of the monitoring API, any number of
\* which can be in progress at once
runFull(r) ==
  /\ runs[r].pc = "idle"
  /\ runs' = [runs EXCEPT ![r].pc = "checks"]
  /\ UNCHANGED << now, reportsDir, notReportVars >>

\* generateMonitoringReport, lines 250-279: the checks are done and the
\* report object is built with the time of that moment
assembleReport(r) ==
  /\ runs[r].pc = "checks"
  /\ \E h \in Healths :
       runs' = [runs EXCEPT ![r].pc = "assembled",
                            ![r].report =
                               << [timestamp |-> now, overallHealth |-> h] >>]
  /\ UNCHANGED << now, reportsDir, notReportVars >>

\* generateMonitoringReport, lines 281-288: the directory is made when it
\* is missing and the report is written under the name of the current
\* millisecond
saveReport(r) ==
  /\ runs[r].pc = "assembled"
  /\ reportsDir' =
       [exists |-> TRUE,
        files |-> writeFileSync(reportsDir.files, reportFileName(now),
                                runs[r].report[1])]
  /\ runs' = [runs EXCEPT ![r].pc = "saved",
                          ![r].file = << reportFileName(now) >>]
  /\ UNCHANGED << now, notReportVars >>

\* main, case 'full': the run is over
runExits(r) ==
  /\ runs[r].pc = "saved"
  /\ runs' = [runs EXCEPT ![r].pc = "done"]
  /\ UNCHANGED << now, reportsDir, notReportVars >>

\* a millisecond passes
tick ==
  /\ now < MaxClock
  /\ now' = now + 1
  /\ UNCHANGED << reportsDir, runs, notReportVars >>

ReportsInit ==
  /\ MonitorIdle
  /\ libCall = [op |-> "none"] /\ lpc = "idle"
  /\ started = <<>> /\ results = <<>> /\ response = <<>>
  /\ configFile = [exists |-> FALSE] /\ configWrites = <<>>
  /\ now = 0
  /\ reportsDir \in [exists : BOOLEAN, files : {<<>>}]
  /\ runs = [r \in Runs |-> [pc |-> "idle", report |-> <<>>, file |-> <<>>]]

ReportsNext ==
  \/ \E r \in Runs : runFull(r)
  \/ \E r \in Runs : assembleReport(r)
  \/ \E r \in Runs : saveReport(r)
  \/ \E r \in Runs : runExits(r)
  \/ tick

ReportsSpec == ReportsInit /\ [][ReportsNext]_vars

\* --------------------------------------------------------------------- C30
\* the run is complete
completed(r) == runs[r].pc = "done"

\* C30: the reports directory is append-only: two full runs that completed,
\* concurrent ones included, leave two different report files, and the file
\* of each run holds the report of that run.
C30_OneFilePerRun ==
  \A r1, r2 \in Runs :
    (r1 # r2 /\ completed(r1) /\ completed(r2)) =>
      /\ runs[r1].file # runs[r2].file
      /\ reportsDir.files[runs[r1].file[1]] = runs[r1].report[1]

====
